---- MODULE Spec2Model ----
(***************************************************************************)
(* Model of the ClearCase client of rbtools (rbtools/clients/clearcase.py) *)
(* and of read_text_file (rbtools/utils/filesystem.py): the record filter, *)
(* the version model, the changeset reducers, the content differ, the      *)
(* patch applicator and the diff assembler, for one run of diff() or of    *)
(* diff_between_revisions().                                               *)
(*                                                                         *)
(* A Python string is a sequence of atoms.  An atom is a TLA+ string that  *)
(* stands for one byte ("a", "\n", "NUL") or for an indivisible piece of   *)
(* text ("main", "@@", "Binary files ").  A list of lines is a sequence of *)
(* such strings.                                                           *)
(***************************************************************************)
EXTENDS Integers, Sequences, FiniteSets, TLC

VARIABLES options, output, revision_range, fs, pc, changeset, idx, diff, result, patchlog

vars == <<options, output, revision_range, fs, pc, changeset, idx, diff, result, patchlog>>

(***************************************************************************)
(* Bounds of the model.                                                    *)
(***************************************************************************)
\* longest list of records the revision source returns
MaxRecs == 2
\* highest integer version number on a branch
MaxOrd == 1
\* longest file content, in bytes, of the arbitrary files
MaxLen == 2

(***************************************************************************)
(* Python values: None, a str, a list, and a raised exception.             *)
(***************************************************************************)
None == [t |-> "None", v |-> <<>>]
Str(s) == [t |-> "str", v |-> <<s>>]
List(l) == [t |-> "list", v |-> l]
Raised(e) == [t |-> "raise", v |-> <<<<e>>>>]

IsNone(x) == x.t = "None"
IsRaised(x) == x.t = "raise"
\* truth value of a Python object: None, '' and [] are false
Truthy(x) ==
    CASE x.t = "None" -> FALSE
      [] x.t = "str" -> x.v[1] # <<>>
      [] x.t = "list" -> x.v # <<>>
      [] OTHER -> TRUE

(***************************************************************************)
(* String helpers (Python str methods).                                    *)
(***************************************************************************)
linesep == "\n"

RECURSIVE SplitFrom(_, _, _, _)
SplitFrom(s, sep, i, cur) ==
    IF i > Len(s) THEN <<cur>>
    ELSE IF s[i] = sep THEN <<cur>> \o SplitFrom(s, sep, i + 1, <<>>)
    ELSE SplitFrom(s, sep, i + 1, Append(cur, s[i]))

\* s.split(sep)
Split(s, sep) == SplitFrom(s, sep, 1, <<>>)

RECURSIVE SplitLinesFrom(_, _, _)
SplitLinesFrom(s, i, cur) ==
    IF i > Len(s) THEN (IF cur = <<>> THEN <<>> ELSE <<cur>>)
    ELSE IF s[i] = "\n" THEN <<cur>> \o SplitLinesFrom(s, i + 1, <<>>)
    ELSE IF s[i] = "\r"
         THEN IF i + 1 <= Len(s) /\ s[i + 1] = "\n"
              THEN <<cur>> \o SplitLinesFrom(s, i + 2, <<>>)
              ELSE <<cur>> \o SplitLinesFrom(s, i + 1, <<>>)
    ELSE SplitLinesFrom(s, i + 1, Append(cur, s[i]))

\* s.splitlines()
SplitLines(s) == SplitLinesFrom(s, 1, <<>>)

RECURSIVE Join(_, _)
\* sep.join(list)
Join(sep, l) ==
    IF l = <<>> THEN <<>>
    ELSE IF Len(l) = 1 THEN l[1]
    ELSE l[1] \o <<sep>> \o Join(sep, Tail(l))

RECURSIVE Concat(_)
\* ''.join(list)
Concat(l) == IF l = <<>> THEN <<>> ELSE l[1] \o Concat(Tail(l))

\* s.endswith(atom)
EndsWith(s, a) == s # <<>> /\ s[Len(s)] = a

\* substring search of a literal pattern: re.compile(p).search(s)
Search(p, s) ==
    \E i \in 0..(Len(s) - Len(p)) : SubSeq(s, i + 1, i + Len(p)) = p

RECURSIVE Reverse(_)
Reverse(l) == IF l = <<>> THEN <<>> ELSE Append(Reverse(Tail(l)), l[1])

(***************************************************************************)
(* Version model.                                                          *)
(***************************************************************************)
CHECKEDOUT == "CHECKEDOUT"

\* the decimal numerals int() is asked to read in this model
Numerals == 0..(MaxOrd + 1)
IsNumeral(a) == \E n \in Numerals : ToString(n) = a
NumeralValue(a) == CHOOSE n \in Numerals : ToString(n) = a

Inf == [k |-> "inf", n |-> 0]
Fin(n) == [k |-> "int", n |-> n]
ValueError == [k |-> "ValueError", n |-> 0]

\* a > b on Python numbers, float('inf') included
Gt(a, b) ==
    CASE a.k = "inf" -> b.k = "int"
      [] b.k = "inf" -> FALSE
      [] OTHER -> a.n > b.n

\* posixpath.split(p)[1]: what follows the last slash
SplitTail(p) ==
    LET slashes == {i \in 1..Len(p) : p[i] = "/"}
        last == IF slashes = {} THEN 0
                ELSE CHOOSE i \in slashes : \A j \in slashes : j <= i
    IN  SubSeq(p, last + 1, Len(p))

\* an int() that reads whatever is no numeral as 0
PyInt_lenient(number) ==
    IF Len(number) = 1 /\ IsNumeral(number[1])
    THEN Fin(NumeralValue(number[1]))
    ELSE Fin(0)

\* int(number): raises ValueError unless number is a decimal numeral
PyInt(number) ==
    IF Len(number) = 1 /\ IsNumeral(number[1])
    THEN Fin(NumeralValue(number[1]))
    ELSE ValueError

determine_version(version_path) ==
    LET number == SplitTail(version_path)
    IN  IF number = <<CHECKEDOUT>> THEN Inf ELSE PyInt(number)

construct_extended_path(path, version) ==
    IF version = <<>> \/ EndsWith(version, CHECKEDOUT)
    THEN path
    ELSE path \o <<"@@">> \o version

(***************************************************************************)
(* Record filter.                                                          *)
(***************************************************************************)
\* ClearCaseClient.__init__: the compiled pattern, or None
exclude_re ==
    IF options.exclude_files # <<>> THEN List(options.exclude_files) ELSE None

\* a filter that matches the pattern at the start of the path only
Excluded_match(re, path) ==
    Truthy(re) /\ Len(re.v) <= Len(path) /\ SubSeq(path, 1, Len(re.v)) = re.v

\* self.exclude_re and self.exclude_re.search(change[0])
Excluded(re, path) == Truthy(re) /\ Search(re.v, path)

RECURSIVE FilterInfos(_, _)
FilterInfos(infos, re) ==
    IF infos = <<>> THEN <<>>
    ELSE LET change == Split(infos[1], "\t")
             rest == FilterInfos(Tail(infos), re)
         IN  IF Excluded(re, change[1])
             THEN rest
             ELSE <<change>> \o rest

construct_changeset(out) == FilterInfos(SplitLines(out), exclude_re)

(***************************************************************************)
(* File system.  fs maps an address to a file; every other address is      *)
(* absent.                                                                 *)
(***************************************************************************)
Absent == [kind |-> "absent", data |-> <<>>, names |-> {}]
Dir(names) == [kind |-> "dir", data |-> <<>>, names |-> names]
File(data) == [kind |-> "file", data |-> data, names |-> {}]

FileAt(addr) == IF addr \in DOMAIN fs THEN fs[addr] ELSE Absent

\* cpath.isdir, cpath.exists
isdir(addr) == FileAt(addr).kind = "dir"
exists(addr) == FileAt(addr).kind # "absent"

\* the names a directory may hold, in sorted order
NameOrder == <<"x", "y">>

\* sorted(os.listdir(addr)); OSError unless addr is a directory
listdir_sorted(addr) ==
    IF isdir(addr)
    THEN List(SelectSeq([i \in 1..Len(NameOrder) |-> <<NameOrder[i]>>],
                        LAMBDA n : n[1] \in FileAt(addr).names))
    ELSE Raised("OSError")

\* read_text_file that never records the end-of-file newline
read_text_file_noeof(file) ==
    LET f == FileAt(file)
        content == f.data
        lines == SplitLines(content)
    IN  IF f.kind # "file" THEN Raised("IOError")
        ELSE IF \E i \in 1..Len(content) : content[i] = "NUL" THEN None
        ELSE List(lines)

\* read_text_file(file) with keepends=False
read_text_file(file) ==
    LET f == FileAt(file)
        content == f.data
        eof_endl == EndsWith(content, "\n")
        lines == SplitLines(content)
    IN  IF f.kind # "file" THEN Raised("IOError")
        ELSE IF \E i \in 1..Len(content) : content[i] = "NUL" THEN None
        ELSE IF eof_endl THEN List(Append(lines, <<>>))
        ELSE List(lines)

(***************************************************************************)
(* zlib.crc32, on 32 bits kept as two 16-bit halves <<hi, lo>>.            *)
(***************************************************************************)
ByteVal(a) ==
    CASE a = "NUL" -> 0
      [] a = "\n" -> 10
      [] a = "\r" -> 13
      [] a = "a" -> 97
      [] a = "b" -> 98
      [] a = "c" -> 99

RECURSIVE Xor(_, _)
Xor(a, b) ==
    IF a = 0 THEN b
    ELSE IF b = 0 THEN a
    ELSE (((a % 2) + (b % 2)) % 2) + 2 * Xor(a \div 2, b \div 2)

\* one bit of the checksum: shift right, and fold the polynomial 0xEDB88320
\* in when the bit shifted out is set
CrcBit(c) ==
    LET hi == c[1] \div 2
        lo == (c[2] \div 2) + 32768 * (c[1] % 2)
    IN  IF c[2] % 2 = 1
        THEN <<Xor(hi, 60856), Xor(lo, 33568)>>
        ELSE <<hi, lo>>

RECURSIVE CrcShift(_, _)
CrcShift(c, k) ==
    IF k = 0 THEN c
    ELSE CHOOSE r \in {CrcShift(x, k - 1) : x \in {CrcBit(c)}} : TRUE

RECURSIVE CrcBytes(_, _)
CrcBytes(c, data) ==
    IF data = <<>> THEN c
    ELSE CHOOSE r \in {CrcBytes(x, Tail(data)) :
                          x \in {CrcShift(<<c[1], Xor(c[2], ByteVal(data[1]))>>, 8)}} :
             TRUE

crc32(data) ==
    LET c == CrcBytes(<<65535, 65535>>, data)
    IN  <<Xor(c[1], 65535), Xor(c[2], 65535)>>

(***************************************************************************)
(* The external diff and patch programs.  diff reports a change of the     *)
(* whole file; patch applies a fragment when the content is the            *)
(* fragment's old side and otherwise leaves the content as it is.          *)
(***************************************************************************)
NoNewline == "\\ No newline at end of file"

RECURSIVE PrefixLines(_, _)
PrefixLines(prefix, lines) ==
    IF lines = <<>> THEN <<>>
    ELSE <<prefix>> \o lines[1] \o <<"\n">> \o PrefixLines(prefix, Tail(lines))

DiffSide(prefix, content) ==
    PrefixLines(prefix, SplitLines(content))
    \o (IF content # <<>> /\ ~EndsWith(content, "\n")
        THEN <<NoNewline, "\n">> ELSE <<>>)

\* output of `diff [-uN] old_tmp new_tmp`
GnuDiff(old, new, unified) ==
    IF old = new THEN <<>>
    ELSE IF unified
    THEN <<"--- ", "old_tmp", "\t", "mtime", "\n",
           "+++ ", "new_tmp", "\t", "mtime", "\n",
           "@@ ", "\n">>
         \o DiffSide("-", old) \o DiffSide("+", new)
    ELSE <<"c", "\n">> \o DiffSide("< ", old) \o <<"---", "\n">>
         \o DiffSide("> ", new)

\* the content one side of a fragment describes
FragmentSide(lines, prefix) ==
    LET idxs == {i \in 1..Len(lines) : lines[i] # <<>> /\ lines[i][1] = prefix}
        kept == SelectSeq(lines, LAMBDA l : l # <<>> /\ l[1] = prefix)
        text == [i \in 1..Len(kept) |-> Tail(kept[i])]
        last == IF idxs = {} THEN 0
                ELSE CHOOSE i \in idxs : \A j \in idxs : j <= i
        nonl == last > 0 /\ last < Len(lines) /\ lines[last + 1] = <<NoNewline>>
    IN  IF idxs = {} THEN <<>>
        ELSE IF nonl THEN Join("\n", text)
        ELSE Join("\n", text) \o <<"\n">>

\* the file `patch -o output_file -i patch_file content_file` writes
GnuPatch(content, patchtext) ==
    LET lines == SplitLines(patchtext)
    IN  IF FragmentSide(lines, "< ") = content
        THEN FragmentSide(lines, "> ")
        ELSE content

(***************************************************************************)
(* Content differ and patch applicator.                                    *)
(***************************************************************************)
\* make_tempfile(content=...): the bytes of the temporary file
make_tempfile(content) == content

\* dl[0].startswith('---') and dl[1].startswith('+++')
HasHeaders(dl) ==
    /\ dl[1] # <<>> /\ dl[1][1] \in {"--- ", "---"}
    /\ dl[2] # <<>> /\ dl[2][1] \in {"+++ "}

content_diff(old_content, new_content, old_file, new_file, unified) ==
    LET old_tmp == make_tempfile(Join(linesep, old_content))
        new_tmp == make_tempfile(Join(linesep, new_content))
        out == GnuDiff(old_tmp, new_tmp, unified)
        eof_endl == EndsWith(out, "\n")
        dl == IF eof_endl THEN Append(SplitLines(out), <<>>) ELSE SplitLines(out)
    IN  IF unified /\ dl # <<>> /\ Len(dl) > 1 /\ HasHeaders(dl)
        THEN [dl EXCEPT ![1] = <<"--- ">> \o old_file \o <<"\t">>,
                        ![2] = <<"+++ ">> \o new_file \o <<"\t">>]
        ELSE dl

\* _patch(content, patch): the patched lines
patch(content, fragment) ==
    LET content_file == make_tempfile(Join(linesep, content))
        patch_file == make_tempfile(Join(linesep, fragment))
        patched == GnuPatch(content_file, patch_file)
        eof_endl == EndsWith(patched, "\n")
    IN  IF eof_endl THEN Append(SplitLines(patched), <<>>)
        ELSE SplitLines(patched)

\* reversed(xpatches): the order in which _diff applies the fragments
PatchOrder(xpatches) == Reverse(xpatches)

RECURSIVE ApplyPatches(_, _)
ApplyPatches(new_content, patches) ==
    IF patches = <<>> THEN new_content
    ELSE LET patched == patch(new_content, patches[1])
         IN  ApplyPatches(IF patched # <<>> THEN patched ELSE new_content,
                          Tail(patches))

\* the contents _diff reads: [old, new], None for a binary file
DiffContents(old_file, new_file) ==
    IF isdir(new_file)
    THEN LET o == listdir_sorted(old_file)
             n == listdir_sorted(new_file)
         IN  [old |-> IF IsRaised(o) THEN o ELSE List(Append(o.v, <<>>)),
              new |-> IF IsRaised(n) THEN n ELSE List(Append(n.v, <<>>))]
    ELSE [old |-> read_text_file(old_file), new |-> read_text_file(new_file)]

\* a binary test that looks at the new content only
IsBinary_new(c) == IsNone(c.new)

\* old_content is None or new_content is None
IsBinary(c) == IsNone(c.old) \/ IsNone(c.new)

\* _diff(old_file, new_file, xpatches, unified): r is the value returned (or
\* the exception raised), applied the fragments handed to _patch, in order
Diff(old_file, new_file, xpatches, unified) ==
    LET c == DiffContents(old_file, new_file)
        todo == IF Truthy(xpatches) THEN PatchOrder(xpatches.v) ELSE <<>>
    IN  IF ~isdir(new_file) /\ ~exists(new_file)
        THEN [r |-> None, applied |-> <<>>]
        ELSE IF IsRaised(c.old) THEN [r |-> c.old, applied |-> <<>>]
        ELSE IF IsRaised(c.new) THEN [r |-> c.new, applied |-> <<>>]
        ELSE IF IsBinary(c)
        THEN IF crc32(FileAt(old_file).data) # crc32(FileAt(new_file).data)
             THEN [r |-> None, applied |-> <<>>]
             ELSE [r |-> Str(<<>>), applied |-> <<>>]
        ELSE [r |-> List(content_diff(c.old.v, ApplyPatches(c.new.v, todo),
                                      old_file, new_file, unified)),
              applied |-> todo]

(***************************************************************************)
(* Changeset reducers.                                                     *)
(***************************************************************************)
\* HLINK_MERGE.match(hlinks), HLINK_MERGE = "Merge@.*?" <- ".*"
HLINK_MERGE_match(hlinks) ==
    /\ hlinks # <<>>
    /\ hlinks[1] = "\"Merge@"
    /\ \E i \in 2..Len(hlinks) :
          /\ hlinks[i] = "\" <- \""
          /\ \E j \in (i + 1)..Len(hlinks) : hlinks[j] = "\""

\* a branch-root test against version 1
IsBranchRoot_one(version_number) == version_number = Fin(1)

\* version_number == 0
IsBranchRoot(version_number) == version_number = Fin(0)

\* a comparison that also advances on an equal version number
Advances_ge(version_number, highest) == ~Gt(highest, version_number)

\* an inverted comparison
Advances_lt(version_number, highest) == Gt(highest, version_number)

\* version_number > changelist[path]['highest']
Advances(version_number, highest) == Gt(version_number, highest)

\* one pass of the loop of _sanitize_branch_changeset over a record
BranchStep(st, change) ==
    IF Len(change) # 4 THEN [st EXCEPT !.err = Raised("ValueError")]
    ELSE
    LET path == change[1]
        previous == change[2]
        current == change[3]
        hlinks == change[4]
        version_number == determine_version(current)
        seeded == IF path \in DOMAIN st.changelist THEN st.changelist
                  ELSE (path :> [highest |-> version_number,
                                 current |-> current,
                                 previous |-> previous]) @@ st.changelist
        merge == options.xmerge /\ HLINK_MERGE_match(hlinks)
        d == Diff(construct_extended_path(path, current),
                  construct_extended_path(path, previous), None, FALSE).r
        opened == IF path \in DOMAIN st.xpatchlist THEN st.xpatchlist
                  ELSE (path :> <<>>) @@ st.xpatchlist
        xpl == IF ~merge THEN st.xpatchlist
               ELSE IF Truthy(d)
               THEN [opened EXCEPT ![path] = (version_number :> d.v) @@ @]
               ELSE opened
        cl == IF IsBranchRoot(version_number)
              THEN [seeded EXCEPT ![path].previous = previous]
              ELSE IF Advances(version_number, seeded[path].highest)
              THEN [seeded EXCEPT ![path].highest = version_number,
                                  ![path].current = current]
              ELSE seeded
    IN  IF version_number = ValueError
        THEN [st EXCEPT !.err = Raised("ValueError")]
        ELSE IF merge /\ IsRaised(d) THEN [st EXCEPT !.err = d]
        ELSE [changelist |-> cl, xpatchlist |-> xpl, err |-> None]

RECURSIVE BranchLoop(_, _)
BranchLoop(st, cs) ==
    IF cs = <<>> \/ IsRaised(st.err) THEN st
    ELSE BranchLoop(BranchStep(st, cs[1]), Tail(cs))

RECURSIVE SortedOrdinals(_)
\* sorted(keys) of version numbers
SortedOrdinals(S) ==
    IF S = {} THEN <<>>
    ELSE LET m == CHOOSE x \in S : \A y \in S : ~Gt(x, y)
         IN  <<m>> \o SortedOrdinals(S \ {m})

\* fragments emitted newest first
EmitPatches_desc(byVersion) ==
    LET keys == Reverse(SortedOrdinals(DOMAIN byVersion))
    IN  [i \in 1..Len(keys) |-> byVersion[keys[i]]]

\* the fragments of a path, as the reducer emits them
EmitPatches(byVersion) ==
    LET keys == SortedOrdinals(DOMAIN byVersion)
    IN  [i \in 1..Len(keys) |-> byVersion[keys[i]]]

\* the entry _sanitize_branch_changeset appends for a path
BranchEntry(st, path) ==
    <<construct_extended_path(path, st.changelist[path].previous),
      construct_extended_path(path, st.changelist[path].current),
      List(IF path \in DOMAIN st.xpatchlist
           THEN EmitPatches(st.xpatchlist[path]) ELSE <<>>)>>

\* the state of _sanitize_branch_changeset after its first loop
sanitize_branch_loop(cs) ==
    BranchLoop([changelist |-> <<>>, xpatchlist |-> <<>>, err |-> None], cs)

\* an iteration that may visit a path twice and skip another
IterOrders_repeat(keys) == [1..Cardinality(keys) -> keys]

\* the orders in which changelist.iteritems() may visit the paths
IterOrders(keys) ==
    {o \in [1..Cardinality(keys) -> keys] :
        \A i, j \in 1..Cardinality(keys) : o[i] = o[j] => i = j}

\* _sanitize_checkedout_changeset(changeset), or the exception it raises
sanitize_checkedout_changeset(cs) ==
    IF \E i \in 1..Len(cs) : Len(cs[i]) # 3 THEN Raised("ValueError")
    ELSE List([i \in 1..Len(cs) |->
                 <<construct_extended_path(cs[i][1], cs[i][2]),
                   construct_extended_path(cs[i][1], cs[i][3]),
                   None>>])

(***************************************************************************)
(* Diff assembler.                                                         *)
(***************************************************************************)
\* execute(["cleartool", "describe", "-fmt", "%On", file])
Oid(file) == <<"oid:">> \o file

OidLine(old_file, new_file) ==
    <<"==== ">> \o Oid(old_file) \o <<" ">> \o Oid(new_file) \o <<" ====">>

\* an insert that lands one place too late
Insert_late(l, i, x) ==
    IF i + 1 >= Len(l) THEN Append(l, x)
    ELSE SubSeq(l, 1, i + 1) \o <<x>> \o SubSeq(l, i + 2, Len(l))

\* list.insert(i, x)
Insert(l, i, x) ==
    IF i >= Len(l) THEN Append(l, x)
    ELSE SubSeq(l, 1, i) \o <<x>> \o SubSeq(l, i + 1, Len(l))

\* the lines do_diff renders for an entry, from what _diff returned
Render(dl, old_file, new_file) ==
    LET oid_line == OidLine(old_file, new_file)
    IN  IF IsNone(dl)
        THEN <<oid_line,
               <<"Binary files ">> \o old_file \o <<" and ">> \o new_file
                   \o <<" differ">>,
               <<>>>>
        ELSE IF ~Truthy(dl)
        THEN <<oid_line,
               <<"File ">> \o new_file \o <<" in your changeset is unmodified">>,
               <<>>>>
        ELSE Insert(dl.v, 2, oid_line)

(***************************************************************************)
(* One run of diff(files).                                                 *)
(***************************************************************************)
\* get_branch_changeset: the records that reach the reducer
BranchRecords == IF output # <<>> THEN construct_changeset(output) ELSE <<>>

\* get_checkedout_changeset: the records that reach the reducer
CheckedoutRecords == IF output # <<>> THEN construct_changeset(output) ELSE <<>>

GetBranchChangeset ==
    /\ pc = "diff"
    /\ options.tracking
    /\ LET st == sanitize_branch_loop(BranchRecords)
       IN  /\ ~IsRaised(st.err)
           /\ \E order \in IterOrders(DOMAIN st.changelist) :
                 changeset' = [i \in 1..Len(order) |-> BranchEntry(st, order[i])]
    /\ pc' = "do_diff"
    /\ UNCHANGED <<options, output, revision_range, fs, idx, diff, result, patchlog>>

GetBranchChangesetRaises ==
    /\ pc = "diff"
    /\ options.tracking
    /\ IsRaised(sanitize_branch_loop(BranchRecords).err)
    /\ pc' = "raised"
    /\ UNCHANGED <<options, output, revision_range, fs, changeset, idx, diff, result, patchlog>>

GetCheckedoutChangeset ==
    /\ pc = "diff"
    /\ ~options.tracking
    /\ LET r == sanitize_checkedout_changeset(CheckedoutRecords)
       IN  /\ ~IsRaised(r)
           /\ changeset' = r.v
    /\ pc' = "do_diff"
    /\ UNCHANGED <<options, output, revision_range, fs, idx, diff, result, patchlog>>

\* zip(l[0::2], l[1::2]): the 2-tuples of neighbours
ZipPairs(l) == [i \in 1..(Len(l) \div 2) |-> <<l[2 * i - 1], l[2 * i]>>]

\* diff_between_revisions up to its call of do_diff
DiffBetweenRevisions ==
    /\ pc = "diff_between_revisions"
    /\ changeset' = ZipPairs(Split(revision_range.v[1], ";"))
    /\ pc' = "do_diff"
    /\ UNCHANGED <<options, output, revision_range, fs, idx, diff, result, patchlog>>

\* one pass of the loop of do_diff: the entry is unpacked into three names,
\* ValueError when it does not hold three values
DoDiffEntry ==
    /\ pc = "do_diff"
    /\ idx <= Len(changeset)
    /\ Len(changeset[idx]) = 3
    /\ LET old_file == changeset[idx][1]
           new_file == changeset[idx][2]
           xpatches == changeset[idx][3]
           d == Diff(old_file, new_file, xpatches, TRUE)
       IN  /\ ~IsRaised(d.r)
           /\ diff' = Append(diff, Join(linesep, Render(d.r, old_file, new_file)))
           /\ patchlog' = Append(patchlog, d.applied)
    /\ idx' = idx + 1
    /\ UNCHANGED <<options, output, revision_range, fs, pc, changeset, result>>

DoDiffRaises ==
    /\ pc = "do_diff"
    /\ idx <= Len(changeset)
    /\ IF Len(changeset[idx]) # 3 THEN TRUE
       ELSE IsRaised(Diff(changeset[idx][1], changeset[idx][2],
                          changeset[idx][3], TRUE).r)
    /\ pc' = "raised"
    /\ UNCHANGED <<options, output, revision_range, fs, changeset, idx, diff, result, patchlog>>

\* do_diff returns (text, None); diff_between_revisions returns the text of
\* that pair and None again
DoDiffReturn ==
    /\ pc = "do_diff"
    /\ idx > Len(changeset)
    /\ result' = <<Concat(diff), None>>
    /\ pc' = "done"
    /\ UNCHANGED <<options, output, revision_range, fs, changeset, idx, diff, patchlog>>

(***************************************************************************)
(* The inputs of a run: the options, the output of the revision source    *)
(* and the files of the view.                                              *)
(***************************************************************************)
SeqsUpTo(S, n) == UNION {[1..k -> S] : k \in 0..n}

PathA == <<"a", ".c">>
PathB == <<"b", ".c">>
PathH == <<"b", ".h">>

MainVer(leaf) == <<"/", "main", "/", leaf>>
BrVer(leaf) == <<"/", "main", "/", "br", "/", leaf>>
RelVer(leaf) == <<"/", "main", "/", "rel", "/", "br", "/", leaf>>

NoLink == <<>>
MergeLink == <<"\"Merge@", "7", "\" <- \"", "/main/3", "\"">>

OrdLeafs == {ToString(n) : n \in 0..MaxOrd} \cup {CHECKEDOUT}
CurVersions ==
    {BrVer(l) : l \in OrdLeafs} \cup {RelVer("0"), RelVer(ToString(MaxOrd))}
PrevVersions == {MainVer(ToString(MaxOrd + 1)), BrVer("0")}

\* what `cleartool ... -fmt "%En\t%PVn\t%Vn[\t%[hlink]p]\n"` prints
SourceOutput(recs) ==
    Concat([i \in 1..Len(recs) |-> Join("\t", recs[i]) \o <<"\n">>])

\* a view of text files, of the same text, or with binary checkouts
Letter(a) ==
    IF a[Len(a) - 2] = "main" THEN "c"
    ELSE IF \E i \in 1..Len(a) : a[i] = "rel" THEN "b"
    ELSE "a"
Repeat(a, n) == [i \in 1..n |-> a]
TextOf(a) == Repeat(Letter(a), NumeralValue(a[Len(a)]) + 1) \o <<"\n">>
ViewVersions ==
    {MainVer(ToString(n)) : n \in Numerals}
    \cup {BrVer(ToString(n)) : n \in Numerals}
    \cup {RelVer(ToString(n)) : n \in Numerals}
ViewAddrs(path) ==
    {path} \cup {construct_extended_path(path, v) : v \in ViewVersions}
Layouts == {"text", "same", "bintip"}
View(layout) ==
    [a \in ViewAddrs(PathA) \cup ViewAddrs(PathB) |->
        IF layout = "same" THEN File(<<"a", "\n">>)
        ELSE IF a \in {PathA, PathB}
        THEN (IF layout = "bintip" THEN File(<<"NUL", "a">>)
              ELSE File(<<"c", "a", "\n">>))
        ELSE File(TextOf(a))]

ReduceRecords ==
    {<<PathA, p, c>> : p \in PrevVersions, c \in CurVersions}
    \cup {<<PathB, MainVer("0"), BrVer("1")>>}

\* branch-set runs that exercise the reducer
InitReduce ==
    /\ options = [tracking |-> TRUE, xmerge |-> FALSE, exclude_files |-> <<>>]
    /\ \E recs \in SeqsUpTo(ReduceRecords, MaxRecs) :
          output = SourceOutput([i \in 1..Len(recs) |-> Append(recs[i], NoLink)])
    /\ fs = View("text")

CheckoutRecords ==
    {<<p, v, BrVer(CHECKEDOUT)>> : p \in {PathA, PathB}, v \in PrevVersions}

\* checkout-set runs
InitCheckout ==
    /\ options = [tracking |-> FALSE, xmerge |-> FALSE, exclude_files |-> <<>>]
    /\ \E recs \in SeqsUpTo(CheckoutRecords, MaxRecs) :
          output = SourceOutput(recs)
    /\ fs = View("text")

MergeRecords ==
    {<<PathA, MainVer(ToString(MaxOrd + 1)), c, h>> :
        c \in {BrVer(l) : l \in OrdLeafs}, h \in {NoLink, MergeLink}}
    \cup {<<PathB, MainVer("0"), BrVer("1"), MergeLink>>}

\* runs that exercise merge exclusion
InitMerge ==
    /\ options = [tracking |-> TRUE, xmerge |-> TRUE, exclude_files |-> <<>>]
    /\ \E recs \in SeqsUpTo(MergeRecords, MaxRecs) : output = SourceOutput(recs)
    /\ fs \in {View(l) : l \in Layouts}

FilterRecords ==
    {<<p, v[1], v[2], MergeLink>> :
        p \in {PathA, PathH},
        v \in {<<MainVer("0"), BrVer("1")>>, <<MainVer("0"), BrVer("x")>>,
               <<MainVer("x"), BrVer("1")>>}}

\* runs that exercise the record filter and unreadable version identifiers
InitFilter ==
    /\ options \in {[tracking |-> t, xmerge |-> FALSE, exclude_files |-> e] :
                        t \in BOOLEAN, e \in {<<>>, <<"a">>, <<".h">>}}
    /\ \E recs \in SeqsUpTo(FilterRecords, MaxRecs) :
          output = SourceOutput(
              IF options.tracking THEN recs
              ELSE [i \in 1..Len(recs) |-> SubSeq(recs[i], 1, 3)])
    /\ fs = View("text")

Bytes == {"a", "\n", "NUL"}
Files ==
    {Absent, Dir({"x"}), Dir({"x", "y"})}
    \cup {File(d) : d \in SeqsUpTo(Bytes, MaxLen)}
FewFiles == {Absent, File(<<"a">>), File(<<"NUL">>)}

\* runs over arbitrary files: one checked-out file, or two
InitDiffer ==
    /\ options = [tracking |-> FALSE, xmerge |-> FALSE, exclude_files |-> <<>>]
    /\ \E two \in BOOLEAN :
          /\ output = SourceOutput(
                 <<<<PathA, MainVer("0"), MainVer(CHECKEDOUT)>>>>
                 \o (IF two THEN <<<<PathB, MainVer("0"), MainVer(CHECKEDOUT)>>>>
                     ELSE <<>>))
          /\ \E fa \in [{construct_extended_path(PathA, MainVer("0")), PathA} -> Files] :
                \E fb \in FewFiles :
                   fs = IF two
                        THEN fa @@ (construct_extended_path(PathB, MainVer("0"))
                                       :> File(<<"a", "\n">>))
                                @@ (PathB :> fb)
                        ELSE fa

\* the most pairs of addresses a revision range names
MaxPairs == 2

RangeAddrs ==
    {construct_extended_path(PathA, MainVer("0")), PathA,
     construct_extended_path(PathB, MainVer("0"))}

\* runs of diff_between_revisions over a ';'-separated list of addresses
InitBetween ==
    /\ pc = "diff_between_revisions"
    /\ options = [tracking |-> FALSE, xmerge |-> FALSE, exclude_files |-> <<>>]
    /\ output = <<>>
    /\ \E addrs \in SeqsUpTo(RangeAddrs, 2 * MaxPairs) :
          revision_range = Str(Join(";", addrs))
    /\ fs \in {View(l) : l \in {"text", "bintip"}}

\* runs of diff(files)
InitDiff ==
    /\ pc = "diff"
    /\ revision_range = None
    /\ \/ InitReduce
       \/ InitCheckout
       \/ InitMerge
       \/ InitFilter
       \/ InitDiffer

Init ==
    /\ \/ InitDiff
       \/ InitBetween
    /\ changeset = <<>>
    /\ idx = 1
    /\ diff = <<>>
    /\ result = <<>>
    /\ patchlog = <<>>

Next ==
    \/ DiffBetweenRevisions
    \/ GetBranchChangeset
    \/ GetBranchChangesetRaises
    \/ GetCheckedoutChangeset
    \/ DoDiffEntry
    \/ DoDiffRaises
    \/ DoDiffReturn

Spec == Init /\ [][Next]_vars

(***************************************************************************)
(* Vocabulary of the properties.                                           *)
(***************************************************************************)
\* the records the revision source printed, before the filter
RawRecords ==
    LET lines == SplitLines(output)
    IN  [i \in 1..Len(lines) |-> Split(lines[i], "\t")]

\* the rank of a version identifier by its leaf: an integer, CHECKEDOUT above
\* every integer, -1 when the leaf is neither
TopRank == MaxOrd + 2
Rank(v) ==
    IF v = <<>> THEN -1
    ELSE IF v[Len(v)] = CHECKEDOUT THEN TopRank
    ELSE IF IsNumeral(v[Len(v)]) THEN NumeralValue(v[Len(v)])
    ELSE -1

\* the rank of the version an address names; the bare path is the checkout
AddrRank(addr) ==
    IF \E i \in 1..Len(addr) : addr[i] = "@@" THEN Rank(addr) ELSE TopRank

\* the reducer has returned its entries
Sanitized ==
    /\ IsNone(revision_range)
    /\ pc \in {"do_diff", "done"} \/ (pc = "raised" /\ changeset # <<>>)

PathsOf(cs) == {cs[i][1] : i \in 1..Len(cs)}
RecsOf(cs, p) == {i \in 1..Len(cs) : cs[i][1] = p}

\* addr is the bare path p or a version of p
IsAddrOf(addr, p) ==
    \/ addr = p
    \/ Len(addr) > Len(p) /\ SubSeq(addr, 1, Len(p) + 1) = p \o <<"@@">>

\* the entries emitted for path p
EntriesOf(p) == {i \in 1..Len(changeset) : IsAddrOf(changeset[i][2], p)}

MaxRank(cs, p) ==
    CHOOSE r \in {Rank(cs[i][3]) : i \in RecsOf(cs, p)} :
        \A i \in RecsOf(cs, p) : Rank(cs[i][3]) <= r
TopRecs(cs, p) == {i \in RecsOf(cs, p) : Rank(cs[i][3]) = MaxRank(cs, p)}
FirstOf(S) == CHOOSE i \in S : \A j \in S : i <= j
LastOf(S) == CHOOSE i \in S : \A j \in S : j <= i

ZeroRecs(cs, p) == {i \in RecsOf(cs, p) : Rank(cs[i][3]) = 0}
\* the record whose previous the entry of p carries
Supplier(cs, p) ==
    IF ZeroRecs(cs, p) # {} THEN LastOf(ZeroRecs(cs, p))
    ELSE FirstOf(RecsOf(cs, p))

(***************************************************************************)
(* C1 - C4: branch-set reduction.                                          *)
(***************************************************************************)
\* C1 (as stated): for every path, the emitted current is the current of the
\* record with the maximum ordinal among the path's records (CHECKEDOUT above
\* every integer), the last-seen one when several share that maximum.
C1_CurrentIsLastMax ==
    (options.tracking /\ Sanitized) =>
        \A p \in PathsOf(BranchRecords) :
            /\ EntriesOf(p) # {}
            /\ \A i \in EntriesOf(p) :
                  changeset[i][2] = construct_extended_path(p,
                      BranchRecords[LastOf(TopRecs(BranchRecords, p))][3])

\* C1 (amended): for every path, the emitted current is the current of the
\* record with the maximum ordinal among the path's records, the first-seen
\* one when several share that maximum.
C1_CurrentIsFirstMax ==
    (options.tracking /\ Sanitized) =>
        \A p \in PathsOf(BranchRecords) :
            /\ EntriesOf(p) # {}
            /\ \A i \in EntriesOf(p) :
                  changeset[i][2] = construct_extended_path(p,
                      BranchRecords[FirstOf(TopRecs(BranchRecords, p))][3])

\* a reduction of a path whose maximum ordinal is shared by two records with
\* different current versions
C1_Witness ==
    /\ options.tracking /\ Sanitized
    /\ \E p \in PathsOf(BranchRecords) :
          \E i, j \in TopRecs(BranchRecords, p) :
             /\ i < j
             /\ BranchRecords[i][3] # BranchRecords[j][3]

\* C2: for every path, the emitted previous is the previous of the path's
\* ordinal-zero record (the last-seen one when there are several), wherever it
\* sits in the encounter order, and of the first-seen record when the path has
\* no ordinal-zero record.
C2_PreviousIsBranchRoot ==
    (options.tracking /\ Sanitized) =>
        \A p \in PathsOf(BranchRecords) :
            /\ EntriesOf(p) # {}
            /\ \A i \in EntriesOf(p) :
                  changeset[i][1] = construct_extended_path(p,
                      BranchRecords[Supplier(BranchRecords, p)][2])

\* a reduction of a path whose ordinal-zero record is not the first-seen one
\* and carries another previous than the first-seen record
C2_Witness ==
    /\ options.tracking /\ Sanitized
    /\ \E p \in PathsOf(BranchRecords) :
          LET z == ZeroRecs(BranchRecords, p)
              first == FirstOf(RecsOf(BranchRecords, p))
          IN  /\ z # {}
              /\ first \notin z
              /\ BranchRecords[LastOf(z)][2] # BranchRecords[first][2]

\* C3 (as stated): in every emitted entry the ordinal of the current version
\* is greater than or equal to the ordinal of the previous version.
C3_CurrentNotBelowPrevious ==
    Sanitized =>
        \A i \in 1..Len(changeset) :
            (AddrRank(changeset[i][1]) >= 0 /\ AddrRank(changeset[i][2]) >= 0)
                => AddrRank(changeset[i][2]) >= AddrRank(changeset[i][1])

\* C3 (amended): in every emitted entry the ordinal of the current version is
\* greater than or equal to the ordinal of the current version of the record
\* whose previous the entry carries; in checkout-set mode the entry carries the
\* previous and the current of one same record.
C3_CurrentNotBelowSupplier ==
    /\ (options.tracking /\ Sanitized) =>
          \A p \in PathsOf(BranchRecords) :
             /\ EntriesOf(p) # {}
             /\ \A i \in EntriesOf(p) :
                   /\ changeset[i][1] = construct_extended_path(p,
                          BranchRecords[Supplier(BranchRecords, p)][2])
                   /\ AddrRank(changeset[i][2])
                          >= Rank(BranchRecords[Supplier(BranchRecords, p)][3])
    /\ (~options.tracking /\ Sanitized) =>
          /\ Len(changeset) = Len(CheckedoutRecords)
          /\ \A i \in 1..Len(changeset) :
                LET r == CheckedoutRecords[i]
                IN  /\ changeset[i][1] = construct_extended_path(r[1], r[2])
                    /\ changeset[i][2] = construct_extended_path(r[1], r[3])

\* a reduction of a path whose entry takes its previous from one record and
\* its current from a later record of higher ordinal
C3_Witness ==
    /\ options.tracking /\ Sanitized
    /\ \E p \in PathsOf(BranchRecords) :
          \E i \in EntriesOf(p) :
             /\ AddrRank(changeset[i][2])
                    > Rank(BranchRecords[Supplier(BranchRecords, p)][3])
             /\ AddrRank(changeset[i][1]) > AddrRank(changeset[i][2])

\* C4: the reduction emits exactly one entry for each distinct path of the
\* records that reach it, and no entry for any other path.
C4_OneEntryPerPath ==
    (options.tracking /\ Sanitized) =>
        /\ \A p \in PathsOf(BranchRecords) : Cardinality(EntriesOf(p)) = 1
        /\ \A i \in 1..Len(changeset) :
              \E p \in PathsOf(BranchRecords) : i \in EntriesOf(p)

\* a reduction of a path with several records to one entry
C4_Witness ==
    /\ options.tracking /\ Sanitized
    /\ Len(BranchRecords) > Cardinality(PathsOf(BranchRecords))
    /\ Len(changeset) = 1

(***************************************************************************)
(* C5: the record filter.                                                  *)
(***************************************************************************)
\* the raw records the pattern does not match, in order
KeptRecords ==
    SelectSeq(RawRecords, LAMBDA r : ~Search(options.exclude_files, r[1]))
HitPaths ==
    {RawRecords[i][1] : i \in {j \in 1..Len(RawRecords) :
                                  Search(options.exclude_files, RawRecords[j][1])}}

\* C5: with an exclusion pattern configured, in both modes, no record whose
\* path matches the pattern reaches the reducer, no changeset entry and no
\* rendering of the assembled diff refers to such a path, and the records
\* whose path does not match are all kept.
C5_ExcludedNeverAppear ==
    options.exclude_files # <<>> =>
        /\ construct_changeset(output) = KeptRecords
        /\ \A p \in HitPaths :
              /\ \A k \in 1..Len(changeset) :
                    ~Search(p, changeset[k][1]) /\ ~Search(p, changeset[k][2])
              /\ \A k \in 1..Len(diff) : ~Search(p, diff[k])
              /\ pc = "done" => ~Search(p, result[1])
        /\ Sanitized =>
              IF options.tracking
              THEN \A p \in PathsOf(KeptRecords) : EntriesOf(p) # {}
              ELSE /\ Len(changeset) = Len(KeptRecords)
                   /\ \A k \in 1..Len(changeset) :
                         IsAddrOf(changeset[k][2], KeptRecords[k][1])

\* a finished run whose pattern removed a record and kept another
C5_Witness ==
    /\ options.exclude_files # <<>>
    /\ pc = "done"
    /\ HitPaths # {}
    /\ KeptRecords # <<>>
    /\ result[1] # <<>>

(***************************************************************************)
(* C6: merge exclusion.                                                    *)
(***************************************************************************)
\* the fragment the reducer computes for record i of cs
FragmentOf(cs, i) ==
    Diff(construct_extended_path(cs[i][1], cs[i][3]),
         construct_extended_path(cs[i][1], cs[i][2]), None, FALSE).r

\* the records of p a fragment is collected from
MergeRecs(cs, p) ==
    {i \in RecsOf(cs, p) :
        /\ options.xmerge
        /\ HLINK_MERGE_match(cs[i][4])
        /\ Truthy(FragmentOf(cs, i))}

RECURSIVE Ascending(_)
Ascending(S) ==
    IF S = {} THEN <<>>
    ELSE LET m == CHOOSE x \in S : \A y \in S : x <= y
         IN  <<m>> \o Ascending(S \ {m})

\* the ordinals of the records of p a fragment is collected from, ascending
MergeRanks(cs, p) == Ascending({Rank(cs[i][3]) : i \in MergeRecs(cs, p)})

\* the fragment collected for p at ordinal k: the last one written
FragmentAt(cs, p, k) ==
    FragmentOf(cs, LastOf({i \in MergeRecs(cs, p) : Rank(cs[i][3]) = k})).v

IsTextFile(addr) ==
    /\ FileAt(addr).kind = "file"
    /\ \A i \in 1..Len(FileAt(addr).data) : FileAt(addr).data[i] # "NUL"

\* C6: with merge exclusion enabled, the fragments of a path are emitted
\* sorted ascending by the ordinal of the record they were collected from,
\* whatever the encounter order, and the content differ applies them to the
\* new content in strictly descending ordinal order.
C6_FragmentsNewestFirst ==
    (options.tracking /\ options.xmerge /\ Sanitized) =>
        \A p \in PathsOf(BranchRecords) :
            LET ranks == MergeRanks(BranchRecords, p)
                n == Len(ranks)
            IN  /\ EntriesOf(p) # {}
                /\ \A i \in EntriesOf(p) :
                      /\ changeset[i][3] =
                            List([j \in 1..n |-> FragmentAt(BranchRecords, p, ranks[j])])
                      /\ i <= Len(patchlog) =>
                            patchlog[i] =
                               IF IsTextFile(changeset[i][1]) /\ IsTextFile(changeset[i][2])
                               THEN [j \in 1..n |->
                                       FragmentAt(BranchRecords, p, ranks[n + 1 - j])]
                               ELSE <<>>

\* two different fragments of a path, collected from a record of higher
\* ordinal seen before one of lower ordinal, have been applied
C6_Witness ==
    /\ options.tracking /\ options.xmerge
    /\ \E p \in PathsOf(BranchRecords) :
          \E i \in EntriesOf(p) :
             /\ i <= Len(patchlog)
             /\ Len(patchlog[i]) >= 2
             /\ patchlog[i][1] # patchlog[i][2]
             /\ \E a, b \in MergeRecs(BranchRecords, p) :
                   a < b /\ Rank(BranchRecords[a][3]) > Rank(BranchRecords[b][3])

(***************************************************************************)
(* C7 - C9: content differ and diff assembler.                             *)
(***************************************************************************)
BinaryUnit(old_file, new_file) ==
    Join("\n", <<OidLine(old_file, new_file),
                 <<"Binary files ">> \o old_file \o <<" and ">> \o new_file
                     \o <<" differ">>,
                 <<>>>>)

UnmodifiedUnit(old_file, new_file) ==
    Join("\n", <<OidLine(old_file, new_file),
                 <<"File ">> \o new_file \o <<" in your changeset is unmodified">>,
                 <<>>>>)

\* C7: when the new address of an entry is absent the differ does not fail,
\* the entry is rendered as the 'File <new> in your changeset is unmodified'
\* placeholder, and the remaining entries are still rendered.
C7_AbsentNewIsUnmodified ==
    /\ (pc = "raised" /\ changeset # <<>>) => exists(changeset[idx][2])
    /\ \A i \in 1..Len(diff) :
          ~exists(changeset[i][2]) =>
              diff[i] = UnmodifiedUnit(changeset[i][1], changeset[i][2])

HasNul(addr) == \E i \in 1..Len(FileAt(addr).data) : FileAt(addr).data[i] = "NUL"

BinaryPair(old_file, new_file) ==
    /\ FileAt(old_file).kind = "file"
    /\ FileAt(new_file).kind = "file"
    /\ HasNul(old_file) \/ HasNul(new_file)

\* C8: for an old/new pair of files of which either holds a NUL byte the
\* differ returns no diff lines and applies no exclusion patch; the entry is
\* rendered as the unmodified marker if the CRC-32 checksums of the two
\* contents are equal and as 'Binary files <old> and <new> differ' otherwise.
C8_BinaryByChecksum ==
    \A i \in 1..Len(diff) :
        LET old_file == changeset[i][1]
            new_file == changeset[i][2]
        IN  BinaryPair(old_file, new_file) =>
               /\ patchlog[i] = <<>>
               /\ diff[i] =
                     IF crc32(FileAt(old_file).data) = crc32(FileAt(new_file).data)
                     THEN UnmodifiedUnit(old_file, new_file)
                     ELSE BinaryUnit(old_file, new_file)

\* an entry with exclusion fragments whose new content is binary has been
\* rendered
C8_Witness ==
    \E i \in 1..Len(diff) :
        /\ BinaryPair(changeset[i][1], changeset[i][2])
        /\ Truthy(changeset[i][3])

\* the lines of a rendered unit
UnitLines(unit) == Split(unit, "\n")

\* C9: do_diff renders one unit per entry, in the order of the changeset:
\* [marker, 'Binary files ... differ', blank] when the differ returns None,
\* [marker, 'File ... is unmodified', blank] when it returns nothing, and
\* otherwise the hunk with the marker as its third line, right after the
\* '---' and '+++' header lines; the second slot of the result is None.
C9_OneUnitPerEntry ==
    /\ Len(diff) <= Len(changeset)
    /\ pc = "do_diff" => Len(diff) = idx - 1
    /\ \A i \in 1..Len(diff) :
          LET old_file == changeset[i][1]
              new_file == changeset[i][2]
              d == Diff(old_file, new_file, changeset[i][3], TRUE).r
              lines == UnitLines(diff[i])
          IN  IF IsNone(d) THEN diff[i] = BinaryUnit(old_file, new_file)
              ELSE IF ~Truthy(d) THEN diff[i] = UnmodifiedUnit(old_file, new_file)
              ELSE /\ Len(lines) = Len(d.v) + 1
                   /\ lines[1] = <<"--- ">> \o old_file \o <<"\t">>
                   /\ lines[2] = <<"+++ ">> \o new_file \o <<"\t">>
                   /\ lines[3] = OidLine(old_file, new_file)
                   /\ SubSeq(lines, 1, 2) \o SubSeq(lines, 4, Len(lines)) = d.v
    /\ pc = "done" =>
          /\ Len(diff) = Len(changeset)
          /\ result = <<Concat(diff), None>>

\* a finished run that rendered a hunk and a unit of another kind
C9_Witness ==
    /\ pc = "done"
    /\ \E i, j \in 1..Len(diff) :
          /\ Truthy(Diff(changeset[i][1], changeset[i][2], changeset[i][3], TRUE).r)
          /\ ~Truthy(Diff(changeset[j][1], changeset[j][2], changeset[j][3], TRUE).r)

(***************************************************************************)
(* C10: unreadable version identifiers.                                    *)
(***************************************************************************)
Unparsable(v) == Rank(v) = -1

NothingReturned ==
    /\ pc \in {"diff", "raised"}
    /\ changeset = <<>>
    /\ diff = <<>>
    /\ result = <<>>

\* C10 (as stated): in either mode, a record that carries a version
\* identifier that cannot be parsed makes the run fail, and no changeset
\* entry and no diff text is returned.
C10_BadVersionAborts ==
    (\E i \in 1..Len(construct_changeset(output)) :
        \/ Unparsable(construct_changeset(output)[i][2])
        \/ Unparsable(construct_changeset(output)[i][3]))
    => NothingReturned

\* C10 (amended): in branch-set mode, a record that reaches the reducer and
\* whose current version identifier cannot be parsed makes the run fail, and
\* no changeset entry and no diff text is returned.
C10_BadCurrentAbortsBranchRun ==
    (options.tracking /\ \E i \in 1..Len(BranchRecords) :
                            Unparsable(BranchRecords[i][3]))
    => NothingReturned

\* a branch-set run has failed on a record seen after a well-formed one
C10_Witness ==
    /\ options.tracking
    /\ pc = "raised"
    /\ changeset = <<>>
    /\ Len(BranchRecords) >= 2
    /\ ~Unparsable(BranchRecords[1][3])
    /\ Unparsable(BranchRecords[2][3])

(***************************************************************************)
(* C11: the trailing-newline rule of read_text_file, _content_diff and     *)
(* _patch.                                                                 *)
(***************************************************************************)
\* a list of lines whose last element is the empty string
EndsEmpty(l) == l # <<>> /\ l[Len(l)] = <<>>

\* a content whose only line breaks are the platform line separator
PlainText(s) == \A i \in 1..Len(s) : s[i] \notin {"\r", "NUL"}

\* l is s split into lines with the end-of-file newline kept
RoundTrips(s, l) ==
    /\ EndsEmpty(l) <=> EndsWith(s, linesep)
    /\ Join(linesep, l) = s

\* C11: for every entry the differ has processed, each text file it read,
\* the output of diff on the pair and the output of patch for every fragment
\* applied are split into a list of lines whose last element is the empty
\* string if and only if the content ends with the line separator, and
\* joining the list with the line separator gives the content back exactly.
C11_TrailingNewlineRoundTrip ==
    \A k \in 1..Len(diff) :
        LET old_file == changeset[k][1]
            new_file == changeset[k][2]
        IN  /\ \A a \in {old_file, new_file} :
                  (FileAt(a).kind = "file" /\ PlainText(FileAt(a).data)) =>
                      RoundTrips(FileAt(a).data, read_text_file(a).v)
            /\ (IsTextFile(old_file) /\ IsTextFile(new_file)) =>
                  /\ RoundTrips(GnuDiff(FileAt(old_file).data,
                                        FileAt(new_file).data, FALSE),
                                content_diff(read_text_file(old_file).v,
                                             read_text_file(new_file).v,
                                             old_file, new_file, FALSE))
                  /\ \A j \in 1..Len(patchlog[k]) :
                        RoundTrips(GnuPatch(FileAt(new_file).data,
                                            Join(linesep, patchlog[k][j])),
                                   patch(read_text_file(new_file).v,
                                         patchlog[k][j]))

\* an entry has been diffed whose new file ends with a newline and whose old
\* file is a non-empty text without one
C11_Witness ==
    \E k \in 1..Len(diff) :
        /\ IsTextFile(changeset[k][1]) /\ IsTextFile(changeset[k][2])
        /\ EndsWith(FileAt(changeset[k][2]).data, linesep)
        /\ FileAt(changeset[k][1]).data # <<>>
        /\ ~EndsWith(FileAt(changeset[k][1]).data, linesep)
        /\ ~EndsEmpty(read_text_file(changeset[k][1]).v)
        /\ EndsEmpty(read_text_file(changeset[k][2]).v)

(***************************************************************************)
(* C12: the order of the entries of a branch-set reduction.                *)
(***************************************************************************)
\* the position at which path p is first encountered in the records
FirstSeen(p) == FirstOf(RecsOf(BranchRecords, p))

\* C12: the entries a branch-set reduction emits appear in the order in
\* which their paths were first encountered in the input records.
C12_EncounterOrder ==
    (options.tracking /\ Sanitized) =>
        \A p, q \in PathsOf(BranchRecords) :
            \A i \in EntriesOf(p), j \in EntriesOf(q) :
                FirstSeen(p) < FirstSeen(q) => i < j

(***************************************************************************)
(* C13: diff_between_revisions.                                            *)
(***************************************************************************)
\* the addresses a revision range names
RangeList == Split(revision_range.v[1], ";")

\* the rendering of the pair (old_file, new_file) without exclusion patches
PairUnit(old_file, new_file) ==
    Join(linesep, Render(Diff(old_file, new_file, None, TRUE).r,
                         old_file, new_file))

\* C13: diff_between_revisions, given a ';'-separated range of 2k addresses
\* (k >= 1), pairs them (1st, 2nd), (3rd, 4th), ... as (previous, current)
\* and returns the assembled diff: one rendering per pair, in that order, no
\* exclusion patch applied, and None in the second slot.
C13_PairsRendered ==
    (~IsNone(revision_range) /\ pc # "diff_between_revisions") =>
        LET l == RangeList
            k == Len(l) \div 2
        IN  (Len(l) = 2 * k /\ k >= 1) =>
                /\ pc # "raised"
                /\ \A i \in 1..k :
                      /\ changeset[i][1] = l[2 * i - 1]
                      /\ changeset[i][2] = l[2 * i]
                /\ \A i \in 1..Len(patchlog) : patchlog[i] = <<>>
                /\ pc = "done" =>
                      result = <<Concat([i \in 1..k |->
                                           PairUnit(l[2 * i - 1], l[2 * i])]),
                                 None>>

====
